---- MODULE Spec2Model ----
(***************************************************************************)
(* A model of calculate_area.py: the Streamlit crop recommendation page.   *)
(*                                                                         *)
(* Text is a sequence of characters.  TLA+ strings are ASCII, so each      *)
(* Chinese character is written as its pinyin syllable and the sign for    *)
(* degrees Celsius as "degC": the header '温度℃' is <<"wen","du","degC">>. *)
(* Rainfall and temperature are whole numbers, soil pH is in tenths.       *)
(***************************************************************************)
EXTENDS Integers, Sequences, FiniteSets, TLC

\* An optional value is a sequence of at most one element: Python's None is
\* the empty sequence.
Nil == <<>>
Some(x) == <<x>>

Range(f) == {f[i] : i \in DOMAIN f}

\* ------------------------------------------------------------------ bounds

NumSessions == 2
MaxRain1h == 2
MaxLen == 3

Sessions == 1..NumSessions

\* ------------------------------------------------------- column spellings

zhongzhiyue == <<"zhong", "zhi", "yue">>
yuefen == <<"yue", "fen">>
month_en == <<"m", "o", "n", "t", "h">>
wendu_degC == <<"wen", "du", "degC">>
wendu == <<"wen", "du">>
temp_en == <<"t", "e", "m", "p">>
jiangyu_mm == <<"jiang", "yu", "m", "m">>
jiangyu == <<"jiang", "yu">>
rain_en == <<"r", "a", "i", "n">>
turang_pH == <<"tu", "rang", "p", "H">>
pH_zhi == <<"p", "H", "zhi">>
ph_en == <<"p", "h">>
zuowu == <<"zuo", "wu">>
crop_en == <<"c", "r", "o", "p">>
changjianwenti == <<"chang", "jian", "wen", "ti">>
chanliangdengji == <<"chan", "liang", "deng", "ji">>

\* ------------------------------------------------------------- load_data

\* str.strip() removes every leading and trailing whitespace character;
\* the space and the tab stand for the whitespace class.
Whitespace == {" ", "\t"}

RECURSIVE lstrip(_)
lstrip(s) ==
    IF s # <<>> /\ Head(s) \in Whitespace THEN lstrip(Tail(s)) ELSE s

RECURSIVE rstrip(_)
rstrip(s) ==
    IF s # <<>> /\ s[Len(s)] \in Whitespace
    THEN rstrip(SubSeq(s, 1, Len(s) - 1))
    ELSE s

strip(s) == rstrip(lstrip(s))

\* str.replace(ch, ''): every occurrence of the one character is removed.
replace(s, ch) == SelectSeq(s, LAMBDA c : c # ch)

\* df.columns.str.strip().str.replace(' ', '').str.replace('(', '').str.replace(')', '')
normalize_column(s) == replace(replace(replace(strip(s), " "), "("), ")")

\* A fallback list that tries utf-16 before gbk.
encodings_utf16_first == <<"utf-8", "utf-16", "gbk", "utf-8-sig">>

encodings == <<"utf-8", "gbk", "utf-16", "utf-8-sig">>

\* pd.read_csv('crop_data.csv', encoding=encoding): the file is absent, or
\* its bytes fail to decode, or the text fails to parse, or a table comes back.
read_csv(file, encoding) ==
    IF file = Nil THEN "FileNotFoundError" ELSE file[1].read[encoding]

RECURSIVE try_encodings(_, _)
try_encodings(file, i) ==
    IF i > Len(encodings)
    THEN [outcome |-> "DataUnavailable", df |-> Nil]
    ELSE LET r == read_csv(file, encodings[i]) IN
         IF r \in {"UnicodeDecodeError", "FileNotFoundError"}
         THEN try_encodings(file, i + 1)
         ELSE IF r = "ok"
         THEN [outcome |-> "ok",
               df |-> Some([encoding |-> encodings[i],
                            columns |-> [k \in DOMAIN file[1].columns |->
                                           normalize_column(file[1].columns[k])],
                            rows |-> file[1].rows])]
         ELSE [outcome |-> "raise", df |-> Nil]

\* @st.cache_data: the body runs only while no result is cached; a run that
\* stops or raises caches nothing.
load_data(cache, file) ==
    IF cache # Nil THEN [outcome |-> "ok", df |-> cache]
    ELSE try_encodings(file, 1)

\* ------------------------------------------------------ get_weather_data

NowMonth == 11
DefaultTemp == 25
DefaultRain == 800

\* An estimate that scales the hour to a day and forgets the month.
rain_estimate_daily(data) ==
    (IF "rain" \notin DOMAIN data THEN 0
     ELSE IF "h1" \notin DOMAIN data.rain THEN 0 ELSE data.rain.h1) * 24

\* data.get('rain', {}).get('1h', 0) * 24 * 30; the key '1h' is written h1.
rain_estimate(data) ==
    (IF "rain" \notin DOMAIN data THEN 0
     ELSE IF "h1" \notin DOMAIN data.rain THEN 0 ELSE data.rain.h1) * 24 * 30

\* requests.get may raise, response.json() may raise, data['main'] and
\* data['name'] may be missing: each of these ends in the except branch.
get_weather_data(resp) ==
    IF resp.transport # "ok" \/ resp.json = Nil THEN Nil
    ELSE LET data == resp.json[1] IN
         IF resp.status_code = 200
         THEN IF "main" \notin DOMAIN data \/ "name" \notin DOMAIN data THEN Nil
              ELSE Some([temp |-> data.main.temp,
                         rain |-> rain_estimate(data),
                         month |-> NowMonth,
                         location |-> data.name])
         ELSE Nil

\* ----------------------------------------------------------- train_model

Fields == <<"month", "temp", "rain", "ph", "crop">>

col_mapping ==
    [month |-> <<zhongzhiyue, yuefen, month_en>>,
     temp |-> <<wendu_degC, wendu, temp_en>>,
     rain |-> <<jiangyu_mm, jiangyu, rain_en>>,
     ph |-> <<turang_pH, pH_zhi, ph_en>>,
     crop |-> <<zuowu, crop_en>>]

\* A resolver that walks the header and takes its first accepted column.
first_match_header_order(possible_names, columns, i) ==
    LET hits == {k \in DOMAIN columns : columns[k] \in Range(possible_names)} IN
    IF hits = {} THEN Nil
    ELSE columns[CHOOSE k \in hits : \A j \in hits : k <= j]

\* for name in possible_names: if name in df.columns: ... break; else: stop
RECURSIVE first_match(_, _, _)
first_match(possible_names, columns, i) ==
    IF i > Len(possible_names) THEN Nil
    ELSE IF possible_names[i] \in Range(columns) THEN possible_names[i]
    ELSE first_match(possible_names, columns, i + 1)

selected_cols(columns) ==
    [f \in Range(Fields) |-> first_match(col_mapping[f], columns, 1)]

\* df[name]: the position of the (first) column of that name.
col_index(columns, name) ==
    CHOOSE k \in DOMAIN columns :
        columns[k] = name /\ \A j \in DOMAIN columns : columns[j] = name => k <= j

column(df, name) ==
    [r \in DOMAIN df.rows |-> df.rows[r][col_index(df.columns, name)]]

\* A cell of the table is the text read from the file; these are the cells
\* that pandas reads as numbers.
NumberTexts == {"5", "7", "25", "30", "800", "1200", "6.5", "5.8"}

\* model.fit(X, y) raises ValueError on an empty table and on a feature
\* value that is not a number.
fit_raises(df, sel) ==
    \/ df.rows = <<>>
    \/ \E f \in {"month", "temp", "rain", "ph"} :
         \E v \in Range(column(df, sel[f])) : v \notin NumberTexts

\* train_model without the for-else: an unresolved field is met only at
\* selected_cols[...], as a KeyError.
train_model_no_stop(df) ==
    LET sel == selected_cols(df.columns) IN
    IF (\E f \in Range(Fields) : sel[f] = Nil) \/ fit_raises(df, sel)
    THEN [outcome |-> "raise", selected_cols |-> sel, model |-> Nil]
    ELSE [outcome |-> "ok",
          selected_cols |-> sel,
          model |-> Some([feature_names |->
                              <<sel.month, sel.temp, sel.rain, sel.ph>>,
                          classes |-> Range(column(df, sel.crop))])]

train_model(df) ==
    LET sel == selected_cols(df.columns) IN
    IF \E f \in Range(Fields) : sel[f] = Nil
    THEN [outcome |-> "stop", selected_cols |-> sel, model |-> Nil]
    ELSE IF fit_raises(df, sel)
    THEN [outcome |-> "raise", selected_cols |-> sel, model |-> Nil]
    ELSE [outcome |-> "ok",
          selected_cols |-> sel,
          model |-> Some([feature_names |->
                              <<sel.month, sel.temp, sel.rain, sel.ph>>,
                          classes |-> Range(column(df, sel.crop))])]

\* ------------------------------------------------- prediction and display

\* columns=['种植月', '温度℃', '降雨mm', '土壤pH']
PredictColumns == <<zhongzhiyue, wendu_degC, jiangyu_mm, turang_pH>>

input_data(vals) ==
    [columns |-> PredictColumns,
     row |-> <<vals.month, vals.temp, vals.rain, vals.ph>>]

\* df[df['作物'] == crop]
matching_rows(df, crop) ==
    {r \in DOMAIN df.rows : column(df, zuowu)[r] = crop}

\* model.predict(input_data): the tree answers with one of the labels it was
\* fitted on; for a row whose column names differ from the names seen by fit,
\* scikit-learn raises ValueError or only warns, by its version.
predict_results(model, input) ==
    model.classes \cup
        (IF input.columns # model.feature_names THEN {"ValueError"} ELSE {})

\* The try block of the button handler, with `result` what model.predict
\* does.  A KeyError or IndexError of the lookups and a ValueError of predict
\* all end in the handler's except branch.
predict_and_render(model, df, vals, result) ==
    LET cols == Range(df.columns)
        built == [input_data |-> Some(input_data(vals)), raised |-> "none",
                  crop |-> Nil, info |-> "none", advisory |-> Nil,
                  error |-> FALSE]
        crop == result
        shown == [built EXCEPT !.crop = Some(crop)]
        failed == [shown EXCEPT !.raised = "crop_info", !.error = TRUE]
    IN  IF result = "ValueError"
        THEN [built EXCEPT !.raised = "predict", !.error = TRUE]
        ELSE IF zuowu \notin cols THEN failed
        ELSE IF matching_rows(df, crop) = {} THEN failed
        ELSE IF ~({wendu_degC, jiangyu_mm, turang_pH} \subseteq cols) THEN failed
        ELSE IF ~({changjianwenti, chanliangdengji} \subseteq cols)
        THEN [failed EXCEPT !.info = "col1"]
        ELSE LET first == CHOOSE r \in matching_rows(df, crop) :
                              \A q \in matching_rows(df, crop) : r <= q
             IN [shown EXCEPT
                   !.info = "both",
                   !.advisory = Some(<<column(df, changjianwenti)[first],
                                       column(df, chanliangdengji)[first]>>)]

\* ------------------------------------------------------- sidebar and button

\* The slider entries: month, temperature, rainfall and pH (in tenths).
ManualChoices ==
    {[month |-> 5, temp |-> 25, rain |-> 800, ph |-> 65],
     [month |-> 7, temp |-> 30, rain |-> 1200, ph |-> 58]}

ApiKeys == {"", "key"}

\* What the weather service may answer: no answer, a body that is no JSON, an
\* error status, and status 200 with or without main, name, rain and rain.1h.
WeatherResponses ==
    {[transport |-> "error", status_code |-> 0, json |-> Nil],
     [transport |-> "ok", status_code |-> 200, json |-> Nil],
     [transport |-> "ok", status_code |-> 401,
      json |-> Some([message |-> "Invalid API key"])],
     [transport |-> "ok", status_code |-> 200,
      json |-> Some([main |-> [temp |-> 18]])]}
    \cup {[transport |-> "ok", status_code |-> 200,
           json |-> Some([main |-> [temp |-> 18], name |-> "Beijing"])]}
    \cup {[transport |-> "ok", status_code |-> 200,
           json |-> Some([main |-> [temp |-> 18], name |-> "Beijing",
                          rain |-> [h3 |-> 1]])]}
    \cup {[transport |-> "ok", status_code |-> 200,
           json |-> Some([main |-> [temp |-> 18], name |-> "Beijing",
                          rain |-> [h1 |-> r]])] : r \in 0..MaxRain1h}

\* A sidebar that keeps the slider entries when the checkbox is on.
sidebar_keeps_entries(use_real_time, entered) == entered

\* The sidebar: the sliders are rendered, and their entries used, only when the
\* checkbox is off; the pH slider is always rendered.
sidebar(use_real_time, entered) ==
    IF ~use_real_time THEN entered
    ELSE [month |-> NowMonth, temp |-> DefaultTemp, rain |-> DefaultRain,
          ph |-> entered.ph]

\* The button handler up to the model load: the weather lookup and its
\* override of temp, rain and month.
\* if use_real_time and api_key
fetches(use_real_time, api_key) == use_real_time /\ api_key # ""

button_inputs(use_real_time, api_key, entered, resp) ==
    LET base == sidebar(use_real_time, entered)
        fetched == fetches(use_real_time, api_key)
        weather_data == IF fetched THEN get_weather_data(resp[1]) ELSE Nil
    IN  [use_real_time |-> use_real_time,
         api_key |-> api_key,
         entered |-> entered,
         response |-> resp,
         weather_data |-> weather_data,
         vals |-> IF weather_data # Nil
                  THEN [base EXCEPT !.temp = weather_data[1].temp,
                                    !.rain = weather_data[1].rain,
                                    !.month = weather_data[1].month]
                  ELSE base]

\* A load whose every failure is taken for a missing file.
joblib_load_any_error(file) ==
    IF file.state # "complete" THEN "FileNotFoundError" ELSE "ok"

\* joblib.load('model.pkl'): no file, a file another session is still
\* writing, or the persisted model.
joblib_load(file) ==
    IF file.state = "absent" THEN "FileNotFoundError"
    ELSE IF file.state = "partial" THEN "EOFError"
    ELSE "ok"

\* ------------------------------------------------------------------- state

VARIABLES
    csvFile,    \* crop_data.csv: Nil, or Some of its read results and content
    dataCache,  \* the st.cache_data entry of load_data: Nil or Some(df)
    modelFile,  \* model.pkl: absent, partial (being written) or complete
    fits,       \* how many times model.fit has run
    pc,         \* per session: closed, new, stopped, ready, train, dump
    pend,       \* per session: the inputs of the click being handled
    last        \* the script run the latest step completed, with what it
                \* rendered; NoRun when the step completed none

vars == <<csvFile, dataCache, modelFile, fits, pc, pend, last>>

NoRun ==
    [kind |-> "none", stop |-> "none", raised |-> "none",
     ctx |-> Nil, loaded |-> FALSE, trained |-> FALSE, selected |-> Nil,
     model |-> Nil, out |-> Nil]

\* ---------------------------------------------------------------- datasets

raw_header ==
    <<zhongzhiyue,
      <<"wen", "du", "(", "degC", ")">>,
      <<"jiang", "yu", " ", "(", "m", "m", ")">>,
      turang_pH,
      <<" ", "zuo", "wu">>,
      changjianwenti,
      chanliangdengji>>

english_header ==
    <<month_en, temp_en, rain_en, ph_en, crop_en,
      changjianwenti, chanliangdengji>>

crop_en_header == [raw_header EXCEPT ![5] = crop_en]

sample_rows ==
    << <<"5", "25", "800", "6.5", "Maize", "drought risk", "medium">>,
       <<"7", "30", "1200", "5.8", "Rice", "flooding", "high">>,
       <<"5", "30", "800", "6.5", "Maize", "pests", "low">> >>

Drop(seq, k) == SubSeq(seq, 1, k - 1) \o SubSeq(seq, k + 1, Len(seq))

Tables ==
    {[columns |-> raw_header, rows |-> sample_rows],
     [columns |-> english_header, rows |-> sample_rows],
     [columns |-> crop_en_header, rows |-> sample_rows],
     [columns |-> Drop(raw_header, 3),
      rows |-> [r \in DOMAIN sample_rows |-> Drop(sample_rows[r], 3)]],
     [columns |-> raw_header,
      rows |-> [sample_rows EXCEPT ![2][2] = "warm"]]}

\* A file written in UTF-8 with Chinese headers: it decodes as utf-8 and
\* utf-8-sig and fails to decode as gbk and utf-16.
utf8_file ==
    [e \in Range(encodings) |->
        IF e \in {"utf-8", "utf-8-sig"} THEN "ok" ELSE "UnicodeDecodeError"]

File(read, table) ==
    Some([read |-> read, columns |-> table.columns, rows |-> table.rows])

SampleFiles == {File(utf8_file, t) : t \in Tables}

\* Every way the four read attempts can end.  utf-8-sig only skips a leading
\* byte order mark, so it decodes exactly the files utf-8 decodes.
ReadOutcomes == {"ok", "UnicodeDecodeError", "ParserError"}

ReadResults ==
    {r \in [Range(encodings) -> ReadOutcomes] : r["utf-8-sig"] = r["utf-8"]}

EncodingFiles ==
    {Nil} \cup
    {File(r, [columns |-> raw_header, rows |-> sample_rows]) : r \in ReadResults}

\* Headers that hold one or more accepted spellings of one field, in every
\* order; the field's cells are repeated under each spelling.
plain_header ==
    <<zhongzhiyue, wendu_degC, jiangyu_mm, turang_pH, zuowu,
      changjianwenti, chanliangdengji>>

Orders(S) ==
    {q \in UNION {[1..k -> S] : k \in 1..Cardinality(S)} :
        \A i, j \in DOMAIN q : i # j => q[i] # q[j]}

spelling_table(k, q) ==
    [columns |-> Drop(plain_header, k) \o q,
     rows |-> [r \in DOMAIN sample_rows |->
                 Drop(sample_rows[r], k) \o [i \in DOMAIN q |-> sample_rows[r][k]]]]

SpellingFiles ==
    UNION {{File(utf8_file, spelling_table(k, q)) :
               q \in Orders(Range(col_mapping[Fields[k]]))} : k \in DOMAIN Fields}

\* Headers that lack every spelling of one field.
UnresolvedFiles ==
    {File(utf8_file,
          [columns |-> Drop(plain_header, k),
           rows |-> [r \in DOMAIN sample_rows |-> Drop(sample_rows[r], k)]]) :
        k \in DOMAIN Fields}

\* Files whose first header cell is any text of up to MaxLen characters over
\* letters, spaces, tabs and parentheses; the file has a header line only.
HeaderChars == {"a", " ", "\t", "(", ")"}

HeaderTexts == UNION {[1..k -> HeaderChars] : k \in 1..MaxLen}

HeaderFiles ==
    {File(utf8_file, [columns |-> <<h>> \o raw_header, rows |-> <<>>]) :
        h \in HeaderTexts}

\* ------------------------------------------------------------------ actions

InitWith(files, active) ==
    /\ csvFile \in files
    /\ dataCache = Nil
    /\ modelFile = [state |-> "absent", model |-> Nil]
    /\ fits = 0
    /\ pc = [s \in Sessions |-> IF s \in active THEN "new" ELSE "closed"]
    /\ pend = [s \in Sessions |-> Nil]
    /\ last = NoRun

\* Every session opens the page, on one of the sample files.
Init == InitWith(SampleFiles, Sessions)

\* One session opens the page, on any of the files.
InitOneSession ==
    InitWith(SampleFiles \cup EncodingFiles \cup SpellingFiles
                 \cup UnresolvedFiles \cup HeaderFiles, {1})

\* A session opens the page: the script runs to its end with the button not
\* pressed, or stops in load_data.
Open(s) ==
    /\ pc[s] = "new"
    /\ LET r == load_data(dataCache, csvFile) IN
       /\ dataCache' = r.df
       /\ pc' = [pc EXCEPT ![s] = IF r.outcome = "ok" THEN "ready" ELSE "stopped"]
       /\ last' = [NoRun EXCEPT
                     !.kind = "load",
                     !.stop = IF r.outcome = "ok" THEN "none"
                              ELSE IF r.outcome = "DataUnavailable"
                              THEN "DataUnavailable"
                              ELSE "load_failed",
                     !.raised = IF r.outcome = "raise" THEN "load_data" ELSE "none"]
    /\ UNCHANGED <<csvFile, modelFile, fits, pend>>

\* The button is pressed: the script reruns and renders the page anew,
\* load_data answers from the cache, the weather is fetched, and joblib.load
\* is tried.
Click(s) ==
    /\ pc[s] = "ready"
    /\ \E use_real_time \in BOOLEAN, api_key \in ApiKeys,
          entered \in ManualChoices :
       \E resp \in IF fetches(use_real_time, api_key)
                   THEN {Some(r) : r \in WeatherResponses} ELSE {Nil} :
         LET ctx == button_inputs(use_real_time, api_key, entered, resp)
             df == load_data(dataCache, csvFile).df[1]
             loaded == joblib_load(modelFile)
             run == [NoRun EXCEPT !.kind = "click", !.ctx = Some(ctx)]
         IN  IF loaded = "FileNotFoundError"
             THEN /\ pc' = [pc EXCEPT ![s] = "train"]
                  /\ pend' = [pend EXCEPT ![s] = Some(ctx)]
                  /\ last' = NoRun
             ELSE IF loaded = "EOFError"
             THEN /\ last' = [run EXCEPT !.stop = "uncaught",
                                         !.raised = "joblib.load"]
                  /\ UNCHANGED <<pc, pend>>
             ELSE \E result \in predict_results(modelFile.model[1],
                                                  input_data(ctx.vals)) :
                    /\ last' = [run EXCEPT
                                  !.loaded = TRUE,
                                  !.model = modelFile.model,
                                  !.out = Some(predict_and_render(
                                              modelFile.model[1], df, ctx.vals,
                                              result))]
                    /\ UNCHANGED <<pc, pend>>
    /\ UNCHANGED <<csvFile, dataCache, modelFile, fits>>

\* except FileNotFoundError: train_model(df), up to the opening of model.pkl
\* for writing.
Train(s) ==
    /\ pc[s] = "train"
    /\ LET t == train_model(dataCache[1])
           run == [NoRun EXCEPT
                     !.kind = "click", !.ctx = pend[s], !.trained = TRUE,
                     !.selected = IF t.outcome = "raise"
                                  THEN Some(t.selected_cols) ELSE Nil]
       IN  IF t.outcome = "ok"
           THEN /\ fits' = fits + 1
                /\ modelFile' = [state |-> "partial", model |-> Nil]
                /\ pc' = [pc EXCEPT ![s] = "dump"]
                /\ last' = NoRun
                /\ UNCHANGED pend
           ELSE /\ last' = [run EXCEPT
                              !.stop = IF t.outcome = "stop" THEN "columns"
                                       ELSE "uncaught",
                              !.raised = IF t.outcome = "raise" THEN "fit"
                                         ELSE "none"]
                /\ pc' = [pc EXCEPT ![s] = "ready"]
                /\ pend' = [pend EXCEPT ![s] = Nil]
                /\ UNCHANGED <<fits, modelFile>>
    /\ UNCHANGED <<csvFile, dataCache>>

\* joblib.dump completes, train_model returns, and the handler predicts.
Dump(s) ==
    /\ pc[s] = "dump"
    /\ LET t == train_model(dataCache[1])
           model == t.model
       IN
       /\ modelFile' = [state |-> "complete", model |-> model]
       /\ \E result \in predict_results(model[1],
                                          input_data(pend[s][1].vals)) :
            last' = [NoRun EXCEPT
                       !.kind = "click", !.ctx = pend[s],
                       !.trained = TRUE, !.selected = Some(t.selected_cols),
                       !.model = model,
                       !.out = Some(predict_and_render(
                                   model[1], dataCache[1], pend[s][1].vals,
                                   result))]
    /\ pc' = [pc EXCEPT ![s] = "ready"]
    /\ pend' = [pend EXCEPT ![s] = Nil]
    /\ UNCHANGED <<csvFile, dataCache, fits>>

Next == \E s \in Sessions : Open(s) \/ Click(s) \/ Train(s) \/ Dump(s)

Spec == Init /\ [][Next]_vars

SpecOneSession == InitOneSession /\ [][Next]_vars

\* ------------------------------------------------------------------ claims

\* The inputs of every click the state holds: the one just completed and the
\* ones still being handled.
Contexts ==
    (IF last.ctx # Nil THEN {last.ctx[1]} ELSE {})
    \cup {pend[s][1] : s \in {t \in Sessions : pend[t] # Nil}}

\* The stage of the handler that raised in the run just completed.
RaisedIn(run) == IF run.out # Nil THEN run.out[1].raised ELSE run.raised

\* The spellings of field f present in the header, by their place in the
\* field's list, and the one the list names first.
Present(f, columns) ==
    {i \in DOMAIN col_mapping[f] : col_mapping[f][i] \in Range(columns)}

ClaimedColumn(f, columns) ==
    col_mapping[f][CHOOSE i \in Present(f, columns) :
                       \A j \in Present(f, columns) : i <= j]

Accepted(columns) == \A f \in Range(Fields) : Present(f, columns) # {}

\* C1: an exception raised by model.fit or model.predict in a click is caught
\* by the handler and shown as the prediction-failed error; it never leaves
\* the handler uncaught.
C1_ExceptionsCaught ==
    (last.kind = "click" /\ RaisedIn(last) \in {"fit", "predict"})
        => (last.stop = "none" /\ last.out # Nil /\ last.out[1].error)

\* C2: the prediction row has the column names the model was fitted on, in
\* the same order, and holds month, temp, rain, ph in those places.
C2_RowMatchesTraining ==
    (last.out # Nil /\ last.model # Nil)
        => LET input == last.out[1].input_data[1]
               v == last.ctx[1].vals
           IN  /\ input.columns = last.model[1].feature_names
               /\ input.row = <<v.month, v.temp, v.rain, v.ph>>

\* C3 as stated: model.pkl is never deleted here, and model.fit runs at most
\* once over all clicks of all sessions.
C3_TrainsAtMostOnce == fits <= 1

\* C3 as amended: model.fit runs only in a session whose click found no
\* model.pkl, and a click that finds model.pkl on disk never goes on to train.
C3_TrainsOnlyAfterMiss ==
    [][/\ fits' # fits =>
            /\ fits' = fits + 1
            /\ \E s \in Sessions : pc[s] = "train" /\ pc'[s] = "dump"
       /\ \A s \in Sessions :
            (pc[s] = "ready" /\ modelFile.state # "absent") => pc'[s] = "ready"
      ]_vars

C3_Witness ==
    /\ fits = 1
    /\ last.kind = "click" /\ last.loaded /\ ~last.trained
    /\ last.out # Nil /\ last.out[1].crop # Nil

\* C4: when some field has none of its spellings in the header, every click
\* ends in train_model's stop: model.fit never runs, model.pkl is never
\* written, and the click renders no prediction.
C4_UnresolvedStops ==
    (dataCache # Nil /\ ~Accepted(dataCache[1].columns))
        => /\ modelFile.state = "absent"
           /\ fits = 0
           /\ \A s \in Sessions : pc[s] # "dump"
           /\ last.kind = "click" =>
                /\ last.trained
                /\ last.stop = "columns"
                /\ last.model = Nil
                /\ last.out = Nil

C4_Witness ==
    /\ dataCache # Nil /\ ~Accepted(dataCache[1].columns)
    /\ last.kind = "click" /\ last.stop = "columns"

\* The fallback order the claim names, and the places in it of the encodings
\* under which the file does not fail to decode.
ClaimedEncodings == <<"utf-8", "gbk", "utf-16", "utf-8-sig">>

Decodable ==
    IF csvFile = Nil THEN {}
    ELSE {i \in DOMAIN ClaimedEncodings :
            csvFile[1].read[ClaimedEncodings[i]] # "UnicodeDecodeError"}

FirstDecodable == CHOOSE i \in Decodable : \A j \in Decodable : i <= j

\* C5: the table load_data returns was read with the first of utf-8, gbk,
\* utf-16, utf-8-sig that does not fail to decode, and is returned whenever
\* that read succeeds; when the file is absent or no encoding decodes it, no
\* table is returned, the page shows the data-unavailable error, and no
\* session gets to a click, a training or a prediction.
C5_FallbackAndHalt ==
    /\ dataCache # Nil =>
         /\ Decodable # {}
         /\ dataCache[1].encoding = ClaimedEncodings[FirstDecodable]
         /\ csvFile[1].read[dataCache[1].encoding] = "ok"
    /\ ( /\ Decodable # {}
         /\ csvFile[1].read[ClaimedEncodings[FirstDecodable]] = "ok"
         /\ \E s \in Sessions : pc[s] \notin {"closed", "new"} )
         => dataCache # Nil
    /\ Decodable = {} =>
         /\ dataCache = Nil
         /\ \A s \in Sessions : pc[s] \in {"closed", "new", "stopped"} /\ pend[s] = Nil
         /\ modelFile.state = "absent" /\ fits = 0
         /\ last.kind \in {"none", "load"}
         /\ last.kind = "load" => last.stop = "DataUnavailable"

C5_Witness ==
    /\ csvFile # Nil /\ Decodable = {}
    /\ last.kind = "load" /\ last.stop = "DataUnavailable"
    /\ \E s \in Sessions : pc[s] = "stopped"

\* The weather was asked for and get_weather_data returned None.
WeatherFailed(c) == c.response # Nil /\ c.weather_data = Nil

\* C6 as stated: after a failed weather lookup the prediction row holds the
\* month, temperature and rainfall the user entered in the sliders.
C6_FallsBackToEntries ==
    (last.kind = "click" /\ last.out # Nil /\ WeatherFailed(last.ctx[1]))
        => LET e == last.ctx[1].entered IN
           last.out[1].input_data[1].row = <<e.month, e.temp, e.rain, e.ph>>

\* C6 as amended: a failed weather lookup does not end the click, and the
\* click goes on with the current month, temperature 25 and rainfall 800 (and
\* the pH of the slider), which are the values of its prediction row.
C6_FallsBackToDefaults ==
    /\ \A c \in Contexts :
         WeatherFailed(c) =>
            c.vals = [month |-> NowMonth, temp |-> DefaultTemp,
                      rain |-> DefaultRain, ph |-> c.entered.ph]
    /\ (last.kind = "click" /\ WeatherFailed(last.ctx[1])) =>
         /\ last.loaded \/ last.trained \/ last.raised = "joblib.load"
         /\ last.out # Nil =>
              last.out[1].input_data[1].row =
                  <<NowMonth, DefaultTemp, DefaultRain, last.ctx[1].entered.ph>>

C6_Witness ==
    /\ last.kind = "click" /\ WeatherFailed(last.ctx[1])
    /\ last.ctx[1].entered.temp # DefaultTemp
    /\ last.out # Nil /\ last.out[1].crop # Nil

\* C7: the column train_model resolves for a field is the spelling that comes
\* first in the field's list among those in the header, wherever the header
\* has them.
C7_FirstSpellingWins ==
    last.selected # Nil =>
        \A f \in Range(Fields) :
            Present(f, dataCache[1].columns) # {} =>
                last.selected[1][f] = ClaimedColumn(f, dataCache[1].columns)

C7_Witness ==
    /\ last.selected # Nil
    /\ \E f \in Range(Fields) :
         \E i, j \in Present(f, dataCache[1].columns) :
            /\ i < j
            /\ col_index(dataCache[1].columns, col_mapping[f][j])
                   < col_index(dataCache[1].columns, col_mapping[f][i])
            /\ last.selected[1][f] = col_mapping[f][i]

\* C8: every header of the loaded table starts and ends with a character
\* that is no whitespace, and holds no parenthesis.
C8_HeadersClean ==
    dataCache # Nil =>
        \A k \in DOMAIN dataCache[1].columns :
            LET h == dataCache[1].columns[k] IN
            /\ h # <<>> => (h[1] \notin Whitespace /\ h[Len(h)] \notin Whitespace)
            /\ \A i \in DOMAIN h : h[i] \notin {"(", ")"}

\* C9: the rainfall of a weather record is rain.1h times 24 times 30 when the
\* response has rain.1h, and 0 when it has no rain field.
C9_MonthlyRain ==
    \A c \in Contexts :
        (c.response # Nil /\ c.weather_data # Nil) =>
            LET data == c.response[1].json[1] IN
            /\ c.response[1].status_code = 200
            /\ ("rain" \in DOMAIN data /\ "h1" \in DOMAIN data.rain)
                   => c.weather_data[1].rain = data.rain.h1 * 24 * 30
            /\ "rain" \notin DOMAIN data => c.weather_data[1].rain = 0

C9_Witness ==
    /\ last.kind = "click" /\ last.ctx[1].response # Nil
    /\ last.ctx[1].weather_data # Nil
    /\ LET data == last.ctx[1].response[1].json[1] IN
       "rain" \in DOMAIN data /\ "h1" \in DOMAIN data.rain /\ data.rain.h1 = 2
    /\ last.ctx[1].weather_data[1].rain = 1440
    /\ last.out # Nil /\ last.out[1].input_data[1].row[3] = 1440

\* C10: on a table the resolver accepts, a click that renders a crop also
\* renders the common problems and the yield tier of the first row with that
\* crop label, and renders no prediction-failed error.
C10_AdvisoryShown ==
    ( /\ last.out # Nil /\ last.out[1].crop # Nil
      /\ Accepted(dataCache[1].columns) )
        => LET df == dataCache[1]
               labels == column(df, ClaimedColumn("crop", df.columns))
               rows == {r \in DOMAIN df.rows : labels[r] = last.out[1].crop[1]}
               first == CHOOSE r \in rows : \A q \in rows : r <= q
           IN  /\ ~last.out[1].error
               /\ rows # {}
               /\ last.out[1].advisory =
                      Some(<<column(df, changjianwenti)[first],
                             column(df, chanliangdengji)[first]>>)

====
